---- MODULE Spec2Model ----
(***************************************************************************)
(* Her Voice UI: the session relay of server/main.py and                   *)
(* server/gemini_client.py as a state machine.                              *)
(*                                                                         *)
(* Four asyncio coroutines run on one event loop:                          *)
(*   main  websocket_endpoint (main.py), the client read loop;             *)
(*   gem   gemini_task = run_gemini + run_gemini_session, the coordinator; *)
(*   send  send_audio_task, queue -> session.send;                         *)
(*   recv  receive_responses_task, session.receive -> response_callback.   *)
(* A coroutine's pc names the await it is suspended in.  One action is the *)
(* completion of that await followed by the code up to the next await that *)
(* can suspend, so the code between two suspension points is atomic, as on *)
(* a single-threaded event loop.  task.cancel() sets the task's pending    *)
(* cancellation; the task's next step then raises CancelledError at the    *)
(* await it is suspended in.                                               *)
(*                                                                         *)
(* Bytes are kept as sequences of blocks <<part, n>>: n bytes of the       *)
(* remote's audio part number `part`.  The code only ever appends a whole  *)
(* part and flushes the whole buffer, so concatenation of byte strings is  *)
(* concatenation of block sequences and len() is the sum of the n.         *)
(***************************************************************************)
EXTENDS Integers, Sequences, FiniteSets, TLC

\* ---------------------------------------------------------------- bounds
\* the number of inputs the environment gives one session: audio chunks and
\* the end of the client's stream, the client going away, responses and
\* errors from the remote
MaxInputs == 3

\* the number of blocks of a PCM input of pcm_to_wav
MaxBlocks == 2

\* ---------------------------------------------------------------- program constants
BUFFER_TARGET_SIZE == 48000
OUTPUT_SAMPLE_RATE == 24000

\* the sizes of the inline audio parts the remote may produce
AudioSizes == {24000, 48000}

\* the null sentinel of the ingress queue
None == 0

VARIABLES
    GEMINI_API_KEY,   \* TRUE iff the credential is a non-empty string
    pcMain,           \* websocket_endpoint
    clientUp,         \* the client is still there: send_text succeeds
    websocket,        \* the client websocket: "open" or "closed" by the server
    is_connected,
    shutdown_event,
    audio_queue,      \* asyncio.Queue: chunk numbers, None for the sentinel
    audio_buffer,     \* bytearray: sequence of blocks
    pcGem,            \* gemini_task
    gemCancel,        \* gemini_task has a cancellation pending
    session,          \* the remote connection: "none", "open", "closed"
    pcSend,           \* send_task
    sendCancel,
    sendExit,         \* why send_audio_task left its loop
    pcRecv,           \* receive_task
    recvCancel,
    recvExit,
    todo,             \* callbacks of the current response still to be made
    sink,             \* messages the server sent to the client, in order
    nput,             \* number of audio chunks the client has sent so far
    sent,             \* chunks passed to session.send, in order
    remote,           \* responses session.receive() has yielded, in order
    inputs,           \* inputs the environment has given so far
    teardown,         \* number of runs of run_gemini_session's finally block
    raised,           \* exceptions session.send and session.receive raised, in order
    wav               \* a call of pcm_to_wav: its arguments and what it returned

vars == <<GEMINI_API_KEY, pcMain, clientUp, websocket, is_connected, shutdown_event,
          audio_queue, audio_buffer, pcGem, gemCancel, session, pcSend,
          sendCancel, sendExit, pcRecv, recvCancel, recvExit, todo, sink,
          nput, sent, remote, inputs, teardown, raised, wav>>

\* everything but the call of pcm_to_wav
sessionVars == <<GEMINI_API_KEY, pcMain, clientUp, websocket, is_connected,
                 shutdown_event, audio_queue, audio_buffer, pcGem, gemCancel,
                 session, pcSend, sendCancel, sendExit, pcRecv, recvCancel,
                 recvExit, todo, sink, nput, sent, remote, inputs, teardown,
                 raised>>

mainVars == <<pcMain, websocket>>
gemVars  == <<pcGem, gemCancel, session, teardown>>
sendVars == <<pcSend, sendCancel, sendExit, sent>>
recvVars == <<pcRecv, recvCancel, recvExit, todo, remote, audio_buffer>>

\* ---------------------------------------------------------------- bytes
RECURSIVE BytesLen(_)
BytesLen(b) == IF b = <<>> THEN 0 ELSE Head(b)[2] + BytesLen(Tail(b))

\* faulty variant: every field is packed as a 4-byte integer
struct_pack_Long(fmt, v) == [fmt |-> fmt, value |-> v, size |-> 4]

\* struct.pack('<I', v), struct.pack('<H', v): 4 or 2 bytes holding v
struct_pack(fmt, v) == [fmt |-> fmt, value |-> v, size |-> IF fmt = "I" THEN 4 ELSE 2]

\* a literal such as b'RIFF'
Literal(tag) == [fmt |-> "bytes", value |-> tag, size |-> 4]

\* struct.pack raises struct.error unless 0 <= v < 2^16 ('<H'), 0 <= v < 2^32 ('<I')
Packable(field) ==
    \/ field.fmt = "bytes"
    \/ /\ field.value >= 0
       /\ field.fmt = "H" => field.value < 65536
       /\ field.fmt = "I" => field.value \div 65536 < 65536

RECURSIVE SizeOf(_)
SizeOf(writes) ==
    IF writes = << >> THEN 0 ELSE Head(writes).size + SizeOf(Tail(writes))

\* pcm_to_wav with the default channels = 1 and sample_width = 2: the values
\* it computes, what it writes before the samples, and the samples
pcm_to_wav(pcm_data, sample_rate) ==
    [ file_size |-> 36 + BytesLen(pcm_data),
      channels |-> 1,
      sample_rate |-> sample_rate,
      byte_rate |-> sample_rate * 1 * 2,
      block_align |-> 1 * 2,
      bits |-> 2 * 8,
      data_size |-> BytesLen(pcm_data),
      header |-> << Literal("RIFF"),
                    struct_pack("I", 36 + BytesLen(pcm_data)),
                    Literal("WAVE"),
                    Literal("fmt "),
                    struct_pack("I", 16),
                    struct_pack("H", 1),
                    struct_pack("H", 1),
                    struct_pack("I", sample_rate),
                    struct_pack("I", sample_rate * 1 * 2),
                    struct_pack("H", 1 * 2),
                    struct_pack("H", 2 * 8),
                    Literal("data"),
                    struct_pack("I", BytesLen(pcm_data)) >>,
      data |-> pcm_data ]

\* wav_buffer.getvalue(): the number of bytes written and the samples at the
\* end, or struct.error when a field could not be packed
getvalue(w) ==
    IF \A i \in DOMAIN w.header : Packable(w.header[i])
    THEN [raised |-> "none", len |-> SizeOf(w.header) + BytesLen(w.data), wav |-> w]
    ELSE [raised |-> "struct.error"]

\* ---------------------------------------------------------------- messages to the client
LogMsg(tag, level) == [type |-> "server_log", message |-> tag, level |-> level]
ErrorMsg(tag)      == [type |-> "error", message |-> tag]
StartedMsg         == [type |-> "session_started"]
\* the messages of handle_gemini_response; `of` is not part of the message:
\* it records the number of the remote response whose callback sent it
AudioMsg(buf, n)   == [type |-> "audio", data |-> pcm_to_wav(buf, OUTPUT_SAMPLE_RATE),
                       of |-> n]
TranscriptMsg(n)   == [type |-> "transcript", text |-> n, speaker |-> "assistant",
                       of |-> n]
SilentMsg(n)       == [type |-> "assistant_silent", of |-> n]
InterruptedMsg(n)  == [type |-> "interrupted", of |-> n]

\* websocket.send_text(m): the message reaches the client, or, the client
\* being gone, the call raises
SendText(m, ok) == IF ok THEN Append(sink, m) ELSE sink

\* a send_text interrupted by CancelledError has delivered its message or not
Delivered == IF clientUp THEN BOOLEAN ELSE {FALSE}

\* the environment may still give the session an input
Budget == inputs < MaxInputs

\* ---------------------------------------------------------------- error messages
\* str(e) as far as the code reads it: does it contain "cancelled" (any case),
\* does it contain "1008" or "ConnectionClosed"
ErrorStrings == [cancelled : BOOLEAN, closed : BOOLEAN]

\* an entry of the log `raised`: who made the call, str(e), and for a send
\* the chunk that was being sent
Raised(by, error_str, chunk) == [by |-> by, error |-> error_str, chunk |-> chunk]

\* faulty variant: every error is taken for a closed connection
IsConnectionClosed_Always(error_str) == TRUE

\* gemini_client.py 135, 186: `"1008" in error_str or "ConnectionClosed" in error_str`
IsConnectionClosed(error_str) == error_str.closed
\* faulty variant: the marker is not looked for
IsCancelledMarker_Never(error_str) == FALSE

\* gemini_client.py 184: `"cancelled" in error_str.lower()`
IsCancelledMarker(error_str) == error_str.cancelled

TaskFinished(pc) == pc \in {"done", "cancelled"}

\* faulty variant: the key is not looked at
Refuses_Never(key) == FALSE

\* main.py 80: `if not GEMINI_API_KEY`
Refuses(key) == ~key

\* faulty variant: after the error event the connection is tried again
AfterError_Retry == "connecting"

\* main.py 183-187: after the error event run_gemini returns
AfterError == "done"

\* faulty variant: the event is toggled
FatalSet_Toggle(event) == ~event

\* faulty variant: the event is left as it was
FatalSet_Forgotten(event) == event

\* gemini_client.py 137, 188: shutdown_event.set() on a connection-closed
\* error; the value the event has afterwards
FatalSet(event) == TRUE

\* faulty variant: the newest item is taken
QueueGet_Newest(q) == [item |-> q[Len(q)], rest |-> SubSeq(q, 1, Len(q) - 1)]

\* gemini_client.py 109: audio_queue.get() takes the oldest item
QueueGet(q) == [item |-> Head(q), rest |-> Tail(q)]

\* main.py 134: `len(audio_buffer) >= BUFFER_TARGET_SIZE`
ReachedTarget(buf) == BytesLen(buf) >= BUFFER_TARGET_SIZE

\* faulty variant: the buffer is taken to be empty at turn-complete
NeedsFlush_Never(buf) == FALSE

\* main.py 151: `len(audio_buffer) > 0`
NeedsFlush(buf) == BytesLen(buf) > 0

\* ---------------------------------------------------------------- Init
\* no call of pcm_to_wav is followed
NoCall == [pcm_data |-> << >>, sample_rate |-> OUTPUT_SAMPLE_RATE,
           result |-> [raised |-> "not called"]]

SessionInit ==
    /\ GEMINI_API_KEY \in BOOLEAN
    /\ pcMain = "accept"
    /\ clientUp = TRUE
    /\ websocket = "open"
    /\ is_connected = TRUE
    /\ shutdown_event = FALSE
    /\ audio_queue = <<>>
    /\ audio_buffer = <<>>
    /\ pcGem = "none"
    /\ gemCancel = FALSE
    /\ session = "none"
    /\ pcSend = "none"
    /\ sendCancel = FALSE
    /\ sendExit = "none"
    /\ pcRecv = "none"
    /\ recvCancel = FALSE
    /\ recvExit = "none"
    /\ todo = <<>>
    /\ sink = <<>>
    /\ nput = 0
    /\ sent = <<>>
    /\ remote = <<>>
    /\ inputs = 0
    /\ teardown = 0
    /\ raised = <<>>

Init == SessionInit /\ wav = NoCall

\* ---------------------------------------------------------------- websocket_endpoint
\* main.py 76-97, 190: accept, refuse without a credential, else create the
\* queue, the event and gemini_task
MainAccept ==
    /\ pcMain = "accept"
    /\ IF Refuses(GEMINI_API_KEY)
       THEN /\ sink' = Append(sink, ErrorMsg("GEMINI_API_KEY not configured on server"))
            /\ websocket' = "closed"
            /\ pcMain' = "done"
            /\ UNCHANGED pcGem
       ELSE /\ pcGem' = "start"
            /\ pcMain' = "notify"
            /\ UNCHANGED <<sink, websocket>>
    /\ UNCHANGED <<GEMINI_API_KEY, is_connected, shutdown_event, audio_queue,
                   gemCancel, session, teardown, nput>>
    /\ UNCHANGED <<sendVars, recvVars>>
    /\ UNCHANGED inputs
    /\ UNCHANGED <<raised, wav>>
    /\ UNCHANGED clientUp

\* main.py 193-195
MainNotify ==
    /\ pcMain = "notify"
    /\ sink' = Append(sink, StartedMsg)
    /\ pcMain' = "receive"
    /\ UNCHANGED <<GEMINI_API_KEY, websocket, is_connected, shutdown_event,
                   audio_queue, nput>>
    /\ UNCHANGED <<gemVars, sendVars, recvVars>>
    /\ UNCHANGED inputs
    /\ UNCHANGED <<raised, wav>>
    /\ UNCHANGED clientUp

\* main.py 225-240: the finally block, up to `await gemini_task`.  q is the
\* queue as the loop left it.  Nothing in it suspends before the await: the
\* queue is unbounded, so put() returns at once.
\* gemini_task.cancel(): a task awaiting another task passes the cancellation
\* on to it; otherwise the task's own next step raises CancelledError.
MainFinally(q) ==
    /\ is_connected' = FALSE
    /\ shutdown_event' = TRUE
    /\ audio_queue' = Append(q, None)
    /\ IF TaskFinished(pcGem)
       THEN /\ pcMain' = "done"
            /\ UNCHANGED <<gemCancel, sendCancel, recvCancel>>
       ELSE /\ pcMain' = "join"
            /\ IF pcGem = "joinSend" /\ ~TaskFinished(pcSend)
               THEN sendCancel' = TRUE /\ UNCHANGED <<gemCancel, recvCancel>>
               ELSE IF pcGem = "joinRecv" /\ ~TaskFinished(pcRecv)
               THEN recvCancel' = TRUE /\ UNCHANGED <<gemCancel, sendCancel>>
               ELSE gemCancel' = TRUE /\ UNCHANGED <<sendCancel, recvCancel>>

\* main.py 199: `while is_connected`, evaluated after a message was handled
MainLoop(q) ==
    IF is_connected
    THEN /\ audio_queue' = q
         /\ pcMain' = "receive"
         /\ UNCHANGED <<is_connected, shutdown_event, gemCancel, sendCancel, recvCancel>>
    ELSE MainFinally(q)

\* main.py 200-207: a binary message is put on the queue
MainReceiveBytes ==
    /\ Budget
    /\ inputs' = inputs + 1
    /\ UNCHANGED <<raised, wav>>
    /\ pcMain = "receive"
    /\ pcGem # "start"
    /\ clientUp
    /\ nput' = nput + 1
    /\ MainLoop(Append(audio_queue, nput + 1))
    /\ UNCHANGED <<GEMINI_API_KEY, websocket, sink, pcGem, session, teardown,
                   pcSend, sendExit, sent, pcRecv, recvExit, todo, remote, audio_buffer>>
    /\ UNCHANGED clientUp

\* main.py 210-219: a text message that is not end_session (or not JSON)
MainReceiveText ==
    /\ pcMain = "receive"
    /\ pcGem # "start"
    /\ clientUp
    /\ MainLoop(audio_queue)
    /\ UNCHANGED <<GEMINI_API_KEY, websocket, sink, pcGem, session, teardown,
                   pcSend, sendExit, sent, pcRecv, recvExit, todo, remote, audio_buffer, nput>>
    /\ UNCHANGED inputs
    /\ UNCHANGED <<raised, wav>>
    /\ UNCHANGED clientUp

\* main.py 202-203, 215-216, 221-224: websocket.disconnect, end_session, or
\* receive() raises; all leave the loop for the finally block
MainReceiveStop ==
    /\ Budget
    /\ inputs' = inputs + 1
    /\ UNCHANGED <<raised, wav>>
    /\ pcMain = "receive"
    /\ pcGem # "start"
    /\ \E why \in {"websocket.disconnect", "end_session", "exception"} :
          MainFinally(audio_queue)
    /\ UNCHANGED <<GEMINI_API_KEY, websocket, sink, pcGem, session, teardown,
                   pcSend, sendExit, sent, pcRecv, recvExit, todo, remote, audio_buffer, nput>>
    /\ UNCHANGED clientUp

\* the environment: the client goes away; from then on send_text raises and
\* receive() has websocket.disconnect to deliver
ClientGone ==
    /\ Budget
    /\ inputs' = inputs + 1
    /\ UNCHANGED <<raised, wav>>
    /\ pcMain \in {"receive", "join", "done"}
    /\ GEMINI_API_KEY
    /\ clientUp
    /\ clientUp' = FALSE
    /\ UNCHANGED <<GEMINI_API_KEY, pcMain, websocket, is_connected,
                   shutdown_event, audio_queue, sink, nput>>
    /\ UNCHANGED <<gemVars, sendVars, recvVars>>

\* main.py 236-240: `await gemini_task` returns or raises CancelledError
MainJoin ==
    /\ pcMain = "join"
    /\ TaskFinished(pcGem)
    /\ pcMain' = "done"
    /\ UNCHANGED <<GEMINI_API_KEY, websocket, is_connected, shutdown_event,
                   audio_queue, sink, nput>>
    /\ UNCHANGED <<gemVars, sendVars, recvVars>>
    /\ UNCHANGED inputs
    /\ UNCHANGED <<raised, wav>>
    /\ UNCHANGED clientUp

\* ---------------------------------------------------------------- gemini_task
\* gemini_client.py 224-233: the finally block up to the first await that
\* suspends.  ps, pr: where the two loop tasks are.  cancel() of a finished
\* task does nothing; `await task` of a finished task returns at once.
Teardown(ps, pr) ==
    /\ teardown' = teardown + 1
    /\ shutdown_event' = TRUE
    /\ sendCancel' = IF TaskFinished(ps) THEN sendCancel ELSE TRUE
    /\ recvCancel' = IF TaskFinished(pr) THEN recvCancel ELSE TRUE
    /\ pcGem' = IF ~TaskFinished(ps) THEN "joinSend"
                ELSE IF ~TaskFinished(pr) THEN "joinRecv"
                ELSE "closing"

\* faulty variant: the loop condition does not read the event
SuperviseLeaves_BothDone(ps, pr) == TaskFinished(ps) /\ TaskFinished(pr)

\* gemini_client.py 206-220: woken from asyncio.wait (a task completed, or
\* the 1 s timeout) with neither task holding an exception: leave the loop
\* when both are done or the event is set, else wait again
SuperviseLeaves(ps, pr) ==
    \/ (TaskFinished(ps) /\ TaskFinished(pr))
    \/ shutdown_event

\* gemini_client.py 202-206: create both tasks and enter the supervision loop
SpawnAndSupervise ==
    /\ pcSend' = "created"
    /\ pcRecv' = "created"
    /\ IF shutdown_event
       THEN Teardown("created", "created")
       ELSE /\ pcGem' = "wait"
            /\ UNCHANGED <<teardown, shutdown_event, sendCancel, recvCancel>>

\* where gemini_task suspends next once the code after log point `at` runs
\* (send_log returns at once when is_connected is false)
AfterLog(at) ==
    CASE at = "start" -> IF is_connected THEN "log_a"
                         ELSE "connecting"
      [] at = "log_a" -> IF is_connected THEN "log_b" ELSE "connecting"
      [] at = "log_b" -> "connecting"
      [] at = "log_d" -> "done"
      [] at = "log_err" -> IF is_connected THEN "err_send" ELSE AfterError

GemLogText(at) ==
    CASE at = "log_a" -> LogMsg("Connecting to Gemini Live...", "info")
      [] at = "log_b" -> LogMsg("Connecting to Gemini Live (model)...", "info")
      [] at = "log_c" -> LogMsg("Connected to Gemini Live", "info")
      [] at = "log_d" -> LogMsg("Gemini session ended", "warn")
      [] at = "log_err" -> LogMsg("Gemini error", "error")

\* main.py 173-176: the task's first step
GemStart ==
    /\ pcGem = "start"
    /\ pcGem' = AfterLog("start")
    /\ UNCHANGED <<GEMINI_API_KEY, is_connected, shutdown_event, audio_queue,
                   sink, nput, gemCancel, session, teardown>>
    /\ UNCHANGED <<mainVars, sendVars, recvVars>>
    /\ UNCHANGED inputs
    /\ UNCHANGED <<raised, wav>>
    /\ UNCHANGED clientUp

\* main.py 103-114 called from main.py 176, 182, 186 and gemini_client.py 94:
\* send_text completes or raises; the bare except swallows either, and a
\* CancelledError thrown into the await as well
GemLog ==
    /\ pcGem \in {"log_a", "log_b", "log_d", "log_err"}
    /\ sink' = SendText(GemLogText(pcGem), clientUp)
    /\ gemCancel' = FALSE
    /\ pcGem' = AfterLog(pcGem)
    /\ UNCHANGED <<GEMINI_API_KEY, is_connected, shutdown_event, audio_queue,
                   nput, session, teardown>>
    /\ UNCHANGED <<mainVars, sendVars, recvVars>>
    /\ UNCHANGED inputs
    /\ UNCHANGED <<raised, wav>>
    /\ UNCHANGED clientUp

\* gemini_client.py 99: client.aio.live.connect succeeds or raises; on
\* failure run_gemini logs and reports the error (main.py 183-187)
GemConnect ==
    /\ pcGem = "connecting"
    /\ ~gemCancel
    /\ \E ok \in BOOLEAN :
         IF ok
         THEN /\ session' = "open"
              /\ IF is_connected
                 THEN /\ pcGem' = "log_c"
                      /\ UNCHANGED <<pcSend, pcRecv, teardown, shutdown_event,
                                     sendCancel, recvCancel>>
                 ELSE SpawnAndSupervise
         ELSE /\ pcGem' = AfterLog("log_err")
              /\ UNCHANGED <<session, pcSend, pcRecv, teardown, shutdown_event,
                             sendCancel, recvCancel>>
    /\ UNCHANGED <<GEMINI_API_KEY, is_connected, audio_queue, sink, nput,
                   gemCancel, sendExit, sent, recvExit, todo, remote, audio_buffer>>
    /\ UNCHANGED mainVars
    /\ UNCHANGED inputs
    /\ UNCHANGED <<raised, wav>>
    /\ UNCHANGED clientUp

\* gemini_client.py 100-206: the "Connected" log returns, the tasks are made
GemSpawn ==
    /\ pcGem = "log_c"
    /\ sink' = SendText(GemLogText("log_c"), clientUp)
    /\ gemCancel' = FALSE
    /\ SpawnAndSupervise
    /\ UNCHANGED <<GEMINI_API_KEY, is_connected, audio_queue, nput, session,
                   sendExit, sent, recvExit, todo, remote, audio_buffer>>
    /\ UNCHANGED mainVars
    /\ UNCHANGED inputs
    /\ UNCHANGED <<raised, wav>>
    /\ UNCHANGED clientUp

\* main.py 187 -> 163-171: the error event of a failed session
GemErrSend ==
    /\ pcGem = "err_send"
    /\ ~gemCancel
    /\ sink' = SendText(ErrorMsg("Gemini error"), clientUp)
    /\ is_connected' = (is_connected /\ clientUp)
    /\ pcGem' = AfterError
    /\ UNCHANGED <<GEMINI_API_KEY, shutdown_event, audio_queue, nput, gemCancel,
                   session, teardown>>
    /\ UNCHANGED <<mainVars, sendVars, recvVars>>
    /\ UNCHANGED inputs
    /\ UNCHANGED <<raised, wav>>
    /\ UNCHANGED clientUp

\* gemini_client.py 206-225: asyncio.wait returns
GemWait ==
    /\ pcGem = "wait"
    /\ ~gemCancel
    /\ IF SuperviseLeaves(pcSend, pcRecv)
       THEN Teardown(pcSend, pcRecv)
       ELSE UNCHANGED <<teardown, shutdown_event, sendCancel, recvCancel, pcGem>>
    /\ UNCHANGED <<GEMINI_API_KEY, is_connected, audio_queue, sink, nput,
                   gemCancel, session, pcSend, sendExit, sent, pcRecv, recvExit,
                   todo, remote, audio_buffer>>
    /\ UNCHANGED mainVars
    /\ UNCHANGED inputs
    /\ UNCHANGED <<raised, wav>>
    /\ UNCHANGED clientUp

\* faulty variant: only the first task is awaited
AfterJoin_FirstOnly(at) == "closing"

\* where the finally block suspends next once the awaited task is finished
AfterJoin(at) ==
    IF at = "joinSend" /\ ~TaskFinished(pcRecv) THEN "joinRecv" ELSE "closing"

\* gemini_client.py 229-233: `await task` returns (or raises the task's
\* CancelledError, which is swallowed)
GemJoin ==
    /\ \/ pcGem = "joinSend" /\ TaskFinished(pcSend)
       \/ pcGem = "joinRecv" /\ TaskFinished(pcRecv)
    /\ gemCancel' = FALSE
    /\ pcGem' = AfterJoin(pcGem)
    /\ UNCHANGED <<GEMINI_API_KEY, is_connected, shutdown_event, audio_queue,
                   sink, nput, session, teardown>>
    /\ UNCHANGED <<mainVars, sendVars, recvVars>>
    /\ UNCHANGED inputs
    /\ UNCHANGED <<raised, wav>>
    /\ UNCHANGED clientUp

\* gemini_client.py 99, 235 and main.py 182: leaving `async with` closes the
\* remote connection; run_gemini then logs the end of the session
GemClose ==
    /\ pcGem = "closing"
    /\ ~gemCancel
    /\ session' = "closed"
    /\ pcGem' = IF is_connected THEN "log_d" ELSE "done"
    /\ UNCHANGED <<GEMINI_API_KEY, is_connected, shutdown_event, audio_queue,
                   sink, nput, gemCancel, teardown>>
    /\ UNCHANGED <<mainVars, sendVars, recvVars>>
    /\ UNCHANGED inputs
    /\ UNCHANGED <<raised, wav>>
    /\ UNCHANGED clientUp

\* CancelledError raised in gemini_task at the await it is suspended in
\* (main.py 234).  In connect and in handle_gemini_response nothing catches
\* it; in asyncio.wait gemini_client.py 222 does and the finally block runs;
\* in __aexit__ the connection is closed and the error goes on.
GemCancelled ==
    /\ gemCancel
    /\ pcGem \in {"connecting", "err_send", "wait", "closing"}
    /\ gemCancel' = FALSE
    /\ IF pcGem = "wait"
       THEN /\ Teardown(pcSend, pcRecv)
            /\ UNCHANGED <<session, sink>>
       ELSE /\ pcGem' = "cancelled"
            /\ session' = IF pcGem = "closing" THEN "closed" ELSE session
            /\ IF pcGem = "err_send"
               THEN \E ok \in Delivered : sink' = SendText(ErrorMsg("Gemini error"), ok)
               ELSE UNCHANGED sink
            /\ UNCHANGED <<teardown, shutdown_event, sendCancel, recvCancel>>
    /\ UNCHANGED <<GEMINI_API_KEY, is_connected, audio_queue, nput, pcSend,
                   sendExit, sent, pcRecv, recvExit, todo, remote, audio_buffer>>
    /\ UNCHANGED mainVars
    /\ UNCHANGED inputs
    /\ UNCHANGED <<raised, wav>>
    /\ UNCHANGED clientUp

\* ---------------------------------------------------------------- send_audio_task
sendOthers == <<GEMINI_API_KEY, is_connected, nput, mainVars, gemVars, recvVars>>

\* gemini_client.py 106: `while not shutdown_event.is_set()`
SendLoop ==
    IF shutdown_event
    THEN pcSend' = "done" /\ sendExit' = "shutdown"
    ELSE pcSend' = "get" /\ UNCHANGED sendExit

\* gemini_client.py 102-109: the task's first step
SendStart ==
    /\ pcSend = "created"
    /\ ~sendCancel
    /\ SendLoop
    /\ UNCHANGED <<sendCancel, sent, audio_queue, sink, shutdown_event>>
    /\ UNCHANGED sendOthers
    /\ UNCHANGED inputs
    /\ UNCHANGED <<raised, wav>>
    /\ UNCHANGED clientUp

\* gemini_client.py 109-126: wait_for(audio_queue.get(), 0.5) returns the
\* head of the queue, or times out on an empty queue; the sentinel ends the
\* loop, a chunk is passed to session.send
SendGet ==
    /\ pcSend = "get"
    /\ ~sendCancel
    /\ IF audio_queue = <<>>
       THEN /\ SendLoop
            /\ UNCHANGED <<audio_queue, sent>>
       ELSE /\ audio_queue' = QueueGet(audio_queue).rest
            /\ IF QueueGet(audio_queue).item = None
               THEN /\ pcSend' = "done"
                    /\ sendExit' = "sentinel"
                    /\ UNCHANGED sent
               ELSE /\ sent' = Append(sent, QueueGet(audio_queue).item)
                    /\ pcSend' = "sending"
                    /\ UNCHANGED sendExit
    /\ UNCHANGED <<sendCancel, sink, shutdown_event>>
    /\ UNCHANGED sendOthers
    /\ UNCHANGED inputs
    /\ UNCHANGED <<raised, wav>>
    /\ UNCHANGED clientUp

\* gemini_client.py 117-129: session.send returned
SendOk ==
    /\ pcSend = "sending"
    /\ ~sendCancel
    /\ SendLoop
    /\ UNCHANGED <<sendCancel, sent, audio_queue, sink, shutdown_event>>
    /\ UNCHANGED sendOthers
    /\ UNCHANGED inputs
    /\ UNCHANGED <<raised, wav>>
    /\ UNCHANGED clientUp

\* gemini_client.py 133-139: session.send raised error_str; log() suspends in
\* send_log only while is_connected
SendError ==
    /\ pcSend = "sending"
    /\ ~sendCancel
    /\ \E error_str \in ErrorStrings :
         /\ raised' = Append(raised, Raised("send", error_str, sent[Len(sent)]))
         /\ IF IsConnectionClosed(error_str)
            THEN IF is_connected
                 THEN /\ pcSend' = "log_closed"
                      /\ UNCHANGED <<sendExit, shutdown_event>>
                 ELSE /\ shutdown_event' = FatalSet(shutdown_event)
                      /\ pcSend' = "done"
                      /\ sendExit' = "closed"
            ELSE IF is_connected
                 THEN /\ pcSend' = "log_error"
                      /\ UNCHANGED <<sendExit, shutdown_event>>
                 ELSE /\ SendLoop
                      /\ UNCHANGED shutdown_event
    /\ UNCHANGED <<sendCancel, sent, audio_queue, sink>>
    /\ UNCHANGED sendOthers
    /\ UNCHANGED inputs
    /\ UNCHANGED wav
    /\ UNCHANGED clientUp

\* gemini_client.py 136-138: the log returned (send_log swallows a failure
\* of send_text and a CancelledError): set the event, leave the loop
SendLogClosed ==
    /\ pcSend = "log_closed"
    /\ sink' = SendText(LogMsg("Gemini connection closed", "error"), clientUp)
    /\ sendCancel' = FALSE
    /\ shutdown_event' = FatalSet(shutdown_event)
    /\ pcSend' = "done"
    /\ sendExit' = "closed"
    /\ UNCHANGED <<sent, audio_queue>>
    /\ UNCHANGED sendOthers
    /\ UNCHANGED inputs
    /\ UNCHANGED <<raised, wav>>
    /\ UNCHANGED clientUp

\* gemini_client.py 139, 106: the log returned, the loop goes on
SendLogError ==
    /\ pcSend = "log_error"
    /\ sink' = SendText(LogMsg("Error sending audio", "error"), clientUp)
    /\ sendCancel' = FALSE
    /\ SendLoop
    /\ UNCHANGED <<sent, audio_queue, shutdown_event>>
    /\ UNCHANGED sendOthers
    /\ UNCHANGED inputs
    /\ UNCHANGED <<raised, wav>>
    /\ UNCHANGED clientUp

\* send_task.cancel() takes effect: a task that never ran ends cancelled; in
\* queue.get or session.send CancelledError is caught at gemini_client.py
\* 130-132 and the task returns (the queue keeps its head)
SendCancelled ==
    /\ sendCancel
    /\ pcSend \in {"created", "get", "sending"}
    /\ sendCancel' = FALSE
    /\ pcSend' = IF pcSend = "created" THEN "cancelled" ELSE "done"
    /\ sendExit' = "cancelled"
    /\ UNCHANGED <<sent, audio_queue, sink, shutdown_event>>
    /\ UNCHANGED sendOthers
    /\ UNCHANGED inputs
    /\ UNCHANGED <<raised, wav>>
    /\ UNCHANGED clientUp

\* ---------------------------------------------------------------- remote responses
\* a LiveServerContent: the interrupted flag, at most one part of the model
\* turn (inline audio of `data` bytes, 0 for none, or text), turn_complete
Responses ==
    { r \in [interrupted : BOOLEAN, data : AudioSizes \cup {0}, text : BOOLEAN,
             turn_complete : BOOLEAN] :
        \/ ~r.interrupted /\ r.data # 0 /\ ~r.text /\ ~r.turn_complete
        \/ ~r.interrupted /\ r.data = 0 /\ r.text /\ ~r.turn_complete
        \/ ~r.interrupted /\ r.data = 0 /\ ~r.text /\ r.turn_complete
        \/ r.interrupted /\ r.data = 0 /\ ~r.text /\ ~r.turn_complete
        \/ r.interrupted /\ r.data = 24000 /\ r.text /\ r.turn_complete }

\* faulty variant: the interrupted branch does not skip the rest of the
\* response
Callbacks_NoSkip(r, n) ==
    (IF r.interrupted THEN << [cb |-> "interrupted", arg |-> <<n, 0>>] >> ELSE << >>)
    \o (IF r.data # 0 THEN << [cb |-> "audio", arg |-> <<n, r.data>>] >> ELSE << >>)
    \o (IF r.text THEN << [cb |-> "text", arg |-> <<n, 0>>] >> ELSE << >>)
    \o (IF r.turn_complete THEN << [cb |-> "turn_complete", arg |-> <<n, 0>>] >>
        ELSE << >>)

\* gemini_client.py 152-175: the calls of response_callback one response
\* makes, in order; n is the response's number
Callbacks(r, n) ==
    IF r.interrupted
    THEN << [cb |-> "interrupted", arg |-> <<n, 0>>] >>
    ELSE (IF r.data # 0 THEN << [cb |-> "audio", arg |-> <<n, r.data>>] >> ELSE << >>)
         \o (IF r.text THEN << [cb |-> "text", arg |-> <<n, 0>>] >> ELSE << >>)
         \o (IF r.turn_complete THEN << [cb |-> "turn_complete", arg |-> <<n, 0>>] >>
             ELSE << >>)

\* ---------------------------------------------------------------- handle_gemini_response
\* main.py 116-171 up to the first send_text: the calls in `calls` are made
\* one after the other with the buffer `buf`; the result is where the task
\* suspends (head of todo is the call in progress), "receive" when all calls
\* returned without sending.  connected: is_connected.
RECURSIVE RunCallbacks(_, _, _)
RunCallbacks(calls, buf, connected) ==
    IF calls = << >>
    THEN [pc |-> "receive", todo |-> << >>, buf |-> buf]
    ELSE IF ~connected
    THEN RunCallbacks(Tail(calls), buf, connected)
    ELSE CASE Head(calls).cb = "audio" ->
                LET extended == Append(buf, Head(calls).arg)
                IN  IF ReachedTarget(extended)
                    THEN [pc |-> "cb_audio", todo |-> calls, buf |-> extended]
                    ELSE RunCallbacks(Tail(calls), extended, connected)
           [] Head(calls).cb = "text" ->
                [pc |-> "cb_text", todo |-> calls, buf |-> buf]
           [] Head(calls).cb = "turn_complete" ->
                IF NeedsFlush(buf)
                THEN [pc |-> "cb_flush", todo |-> calls, buf |-> buf]
                ELSE [pc |-> "cb_silent", todo |-> calls, buf |-> buf]
           [] Head(calls).cb = "interrupted" ->
                [pc |-> "cb_interrupted", todo |-> calls, buf |-> buf]

\* the message the suspended send_text carries
CallbackMsg(at) ==
    CASE at \in {"cb_audio", "cb_flush"} -> AudioMsg(audio_buffer, Head(todo).arg[1])
      [] at = "cb_text" -> TranscriptMsg(Head(todo).arg[1])
      [] at = "cb_silent" -> SilentMsg(Head(todo).arg[1])
      [] at = "cb_interrupted" -> InterruptedMsg(Head(todo).arg[1])

\* main.py 140, 157: the buffer after the send_text at `at` returned
BufferAfterSend(at) ==
    IF at \in {"cb_audio", "cb_flush"} THEN << >> ELSE audio_buffer

\* ---------------------------------------------------------------- receive_responses_task
recvOthers == <<GEMINI_API_KEY, audio_queue, nput, mainVars, gemVars, sendVars>>

\* the task returns (gemini_client.py 193 or 195)
RecvReturn(why) ==
    /\ pcRecv' = "done"
    /\ recvExit' = why
    /\ todo' = << >>

\* gemini_client.py 146-148: `while not shutdown_event.is_set()`, then
\* session.receive() is entered
RecvLoop ==
    IF shutdown_event
    THEN RecvReturn("shutdown")
    ELSE pcRecv' = "receive" /\ UNCHANGED <<recvExit, todo>>

\* gemini_client.py 141-148: the task's first step
RecvStart ==
    /\ pcRecv = "created"
    /\ ~recvCancel
    /\ RecvLoop
    /\ UNCHANGED <<recvCancel, remote, audio_buffer, sink, is_connected,
                   shutdown_event>>
    /\ UNCHANGED recvOthers
    /\ UNCHANGED inputs
    /\ UNCHANGED <<raised, wav>>
    /\ UNCHANGED clientUp

\* gemini_client.py 148-175: the iterator yields a response; its callbacks
\* run up to the first send_text
RecvResponse ==
    /\ Budget
    /\ inputs' = inputs + 1
    /\ UNCHANGED <<raised, wav>>
    /\ pcRecv = "receive"
    /\ ~recvCancel
    /\ \E response \in Responses :
         /\ remote' = Append(remote, response)
         /\ IF shutdown_event
            THEN /\ RecvReturn("shutdown")
                 /\ UNCHANGED audio_buffer
            ELSE LET next == RunCallbacks(Callbacks(response, Len(remote) + 1),
                                          audio_buffer, is_connected)
                 IN  /\ pcRecv' = next.pc
                     /\ todo' = next.todo
                     /\ audio_buffer' = next.buf
                     /\ UNCHANGED recvExit
    /\ UNCHANGED <<recvCancel, sink, is_connected, shutdown_event>>
    /\ UNCHANGED recvOthers
    /\ UNCHANGED clientUp

\* main.py 136-140, 143-147, 153-161, 169-171: the send_text of the call in
\* progress returns or raises; then the rest of the handler and the
\* response's remaining calls run up to the next send_text
RecvCallback ==
    /\ pcRecv \in {"cb_audio", "cb_text", "cb_flush", "cb_silent", "cb_interrupted"}
    /\ ~recvCancel
    /\ sink' = SendText(CallbackMsg(pcRecv), clientUp)
    /\ is_connected' = (is_connected /\ clientUp)
    /\ IF clientUp /\ pcRecv = "cb_flush"
       THEN /\ pcRecv' = "cb_silent"
            /\ audio_buffer' = << >>
            /\ UNCHANGED todo
       ELSE LET buf == IF clientUp THEN BufferAfterSend(pcRecv) ELSE audio_buffer
                next == RunCallbacks(Tail(todo), buf, is_connected /\ clientUp)
            IN  /\ pcRecv' = next.pc
                /\ todo' = next.todo
                /\ audio_buffer' = next.buf
    /\ UNCHANGED <<recvCancel, recvExit, remote, shutdown_event>>
    /\ UNCHANGED recvOthers
    /\ UNCHANGED inputs
    /\ UNCHANGED <<raised, wav>>
    /\ UNCHANGED clientUp

\* faulty variant: the end of the sequence ends the loop
IteratorEnded_Returns(event) == "return"

\* gemini_client.py 177-180: after the end of the sequence the loop is left
\* if the event is set, else the task sleeps 0.1 s
IteratorEnded(event) == IF event THEN "return" ELSE "sleep_0_1"

\* gemini_client.py 177-180: the iterator ended
RecvIteratorEnd ==
    /\ pcRecv = "receive"
    /\ ~recvCancel
    /\ IF IteratorEnded(shutdown_event) = "return"
       THEN RecvReturn("shutdown")
       ELSE pcRecv' = "sleep_0_1" /\ UNCHANGED <<recvExit, todo>>
    /\ UNCHANGED <<recvCancel, remote, audio_buffer, sink, is_connected,
                   shutdown_event>>
    /\ UNCHANGED recvOthers
    /\ UNCHANGED inputs
    /\ UNCHANGED <<raised, wav>>
    /\ UNCHANGED clientUp

\* gemini_client.py 180, 191, 146: a sleep is over
RecvSleep ==
    /\ pcRecv \in {"sleep_0_1", "sleep_0_5"}
    /\ ~recvCancel
    /\ RecvLoop
    /\ UNCHANGED <<recvCancel, remote, audio_buffer, sink, is_connected,
                   shutdown_event>>
    /\ UNCHANGED recvOthers
    /\ UNCHANGED inputs
    /\ UNCHANGED <<raised, wav>>
    /\ UNCHANGED clientUp

\* why the loop ended on an error carrying the cancellation marker
MarkerExit(error_str) ==
    IF IsConnectionClosed(error_str) THEN "marker_closed" ELSE "marker"

\* gemini_client.py 182-191: session.receive() raised error_str
RecvError ==
    /\ Budget
    /\ inputs' = inputs + 1
    /\ UNCHANGED wav
    /\ pcRecv = "receive"
    /\ ~recvCancel
    /\ \E error_str \in ErrorStrings :
         /\ raised' = Append(raised, Raised("receive", error_str, 0))
         /\ IF IsCancelledMarker(error_str)
            THEN /\ RecvReturn(MarkerExit(error_str))
                 /\ UNCHANGED shutdown_event
            ELSE IF IsConnectionClosed(error_str)
            THEN IF is_connected
                 THEN /\ pcRecv' = "log_lost"
                      /\ UNCHANGED <<recvExit, todo, shutdown_event>>
                 ELSE /\ shutdown_event' = FatalSet(shutdown_event)
                      /\ RecvReturn("closed")
            ELSE /\ pcRecv' = IF is_connected THEN "log_warn" ELSE "sleep_0_5"
                 /\ UNCHANGED <<recvExit, todo, shutdown_event>>
    /\ UNCHANGED <<recvCancel, remote, audio_buffer, sink, is_connected>>
    /\ UNCHANGED recvOthers
    /\ UNCHANGED clientUp

\* gemini_client.py 187-189: the log returned: set the event, leave the loop
RecvLogLost ==
    /\ pcRecv = "log_lost"
    /\ sink' = SendText(LogMsg("Gemini connection lost", "error"), clientUp)
    /\ recvCancel' = FALSE
    /\ shutdown_event' = FatalSet(shutdown_event)
    /\ RecvReturn("closed")
    /\ UNCHANGED <<remote, audio_buffer, is_connected>>
    /\ UNCHANGED recvOthers
    /\ UNCHANGED inputs
    /\ UNCHANGED <<raised, wav>>
    /\ UNCHANGED clientUp

\* gemini_client.py 190-191: the log returned, the loop sleeps
RecvLogWarn ==
    /\ pcRecv = "log_warn"
    /\ sink' = SendText(LogMsg("Receive error", "warn"), clientUp)
    /\ recvCancel' = FALSE
    /\ pcRecv' = "sleep_0_5"
    /\ UNCHANGED <<recvExit, todo, remote, audio_buffer, is_connected,
                   shutdown_event>>
    /\ UNCHANGED recvOthers
    /\ UNCHANGED inputs
    /\ UNCHANGED <<raised, wav>>
    /\ UNCHANGED clientUp

\* receive_task.cancel() takes effect: a task that never ran ends cancelled;
\* elsewhere CancelledError passes `except Exception` and is caught at
\* gemini_client.py 194.  A send_text in progress may or may not have
\* delivered its message; the statements after it do not run.
RecvCancelled ==
    /\ recvCancel
    /\ pcRecv \in {"created", "receive", "sleep_0_1", "sleep_0_5", "cb_audio",
                   "cb_text", "cb_flush", "cb_silent", "cb_interrupted"}
    /\ recvCancel' = FALSE
    /\ pcRecv' = IF pcRecv = "created" THEN "cancelled" ELSE "done"
    /\ recvExit' = "cancelled"
    /\ todo' = << >>
    /\ IF pcRecv \in {"cb_audio", "cb_text", "cb_flush", "cb_silent", "cb_interrupted"}
       THEN \E ok \in Delivered : sink' = SendText(CallbackMsg(pcRecv), ok)
       ELSE UNCHANGED sink
    /\ UNCHANGED <<remote, audio_buffer, is_connected, shutdown_event>>
    /\ UNCHANGED recvOthers
    /\ UNCHANGED inputs
    /\ UNCHANGED <<raised, wav>>
    /\ UNCHANGED clientUp

\* ---------------------------------------------------------------- specification
Main == MainAccept \/ MainNotify \/ MainReceiveBytes \/ MainReceiveText
        \/ MainReceiveStop \/ MainJoin \/ ClientGone

Gem == GemStart \/ GemLog \/ GemConnect \/ GemSpawn \/ GemErrSend \/ GemWait
       \/ GemJoin \/ GemClose \/ GemCancelled

Send == SendStart \/ SendGet \/ SendOk \/ SendError \/ SendLogClosed
        \/ SendLogError \/ SendCancelled

Recv == RecvStart \/ RecvResponse \/ RecvCallback \/ RecvIteratorEnd
        \/ RecvSleep \/ RecvError \/ RecvLogLost \/ RecvLogWarn \/ RecvCancelled

Next == Main \/ Gem \/ Send \/ Recv

Spec == Init /\ [][Next]_vars

\* ---------------------------------------------------------------- pcm_to_wav alone
\* PCM inputs: up to MaxBlocks blocks of samples (none: N = 0)
WavSizes == {1, 1000, 48000}
PcmInputs ==
    UNION { [1..k -> {<<1, n>> : n \in WavSizes}] : k \in 0..MaxBlocks }
SampleRates == {8000, 16000, 24000, 44100, 48000}

WavInit ==
    /\ SessionInit
    /\ wav \in [pcm_data : PcmInputs, sample_rate : SampleRates,
                result : {[raised |-> "not called"]}]

\* gemini_client.py 238-267: the call returns, or raises struct.error
WavCall ==
    /\ wav.result.raised = "not called"
    /\ wav' = [wav EXCEPT !.result = getvalue(pcm_to_wav(wav.pcm_data, wav.sample_rate))]
    /\ UNCHANGED sessionVars

WavSpec == WavInit /\ [][WavCall]_vars

\* the event loop runs every coroutine that can take a step; network
\* operations the server started (connect, send, send_text, close) end.
\* Nothing obliges the client to send a message or the remote to yield one.
MainFair == MainAccept \/ MainNotify \/ MainJoin
RecvFair == RecvStart \/ RecvCallback \/ RecvSleep \/ RecvLogLost \/ RecvLogWarn
            \/ RecvCancelled

FairSpec == /\ Spec
            /\ WF_vars(MainFair)
            /\ WF_vars(Gem)
            /\ WF_vars(Send)
            /\ WF_vars(RecvFair)

\* ---------------------------------------------------------------- logs
\* the chunks the transport has put on the queue, in order
Enqueued == [i \in 1..nput |-> i]

RECURSIVE ChunksOf(_)
ChunksOf(q) ==
    IF q = << >> THEN << >>
    ELSE IF Head(q) = None THEN ChunksOf(Tail(q))
    ELSE <<Head(q)>> \o ChunksOf(Tail(q))

SessionOver == pcMain = "done" /\ TaskFinished(pcGem)

\* ---------------------------------------------------------------- C1
\* C1 as claimed: once the session is over, the chunks passed to session.send
\* are exactly the chunks the transport enqueued before the sentinel.
C1_AllForwarded ==
    (SessionOver /\ TaskFinished(pcSend)) => sent = Enqueued

\* C1, what the code keeps: at every moment the chunks passed to session.send, followed
\* by the chunks still in the queue, are the enqueued chunks in order: what is
\* sent is a prefix of what was enqueued, nothing is skipped, duplicated or
\* reordered, and only chunks still queued when the loop ends are not sent.
C1_ForwardedPrefix ==
    sent \o ChunksOf(audio_queue) = Enqueued

C1_Witness ==
    sent = <<1, 2>> /\ sendExit = "sentinel"

\* ---------------------------------------------------------------- C2
\* C2: the finally block of run_gemini_session runs at most once; it sets the
\* event before it cancels; the connection is closed only after the finally
\* block ran and both tasks ended; a session whose tasks were spawned never
\* ends without all of that; a later shutdown request changes none of it.
C2_TeardownOrder ==
    /\ teardown <= 1
    /\ teardown = 1 => shutdown_event
    /\ (sendCancel \/ recvCancel) => shutdown_event
    /\ session = "closed" =>
          teardown = 1 /\ TaskFinished(pcSend) /\ TaskFinished(pcRecv)
    /\ (TaskFinished(pcGem) /\ pcSend # "none") =>
          teardown = 1 /\ session = "closed"

C2_Witness ==
    /\ session = "closed"
    /\ pcMain = "done"
    /\ sendExit = "cancelled"
    /\ recvExit = "cancelled"
    /\ Len(remote) > 0

\* ---------------------------------------------------------------- C3
LoopsSpawned == pcSend # "none"

AllFinished ==
    TaskFinished(pcSend) /\ TaskFinished(pcRecv) /\ TaskFinished(pcGem)

\* C3: once the shutdown event is set while the loop tasks exist, the
\* supervisor's next wake-up from asyncio.wait leaves the supervision loop and
\* enters the finally block, and eventually both loop tasks have ended and
\* run_gemini_session has returned, whatever the loops were doing.
C3_ShutdownStops ==
    /\ [][(pcGem = "wait" /\ shutdown_event /\ pcGem' # "wait") => teardown' = 1]_vars
    /\ (shutdown_event /\ LoopsSpawned) ~> AllFinished

C3_Witness ==
    /\ AllFinished
    /\ shutdown_event
    /\ sendExit = "closed"
    /\ recvExit = "cancelled"
    /\ pcMain = "receive"

\* ---------------------------------------------------------------- C4
\* C4 as claimed: a loop that ended on an error whose message contains "1008"
\* or "ConnectionClosed" has the shutdown event set.
C4_ClosedSetsShutdown ==
    (sendExit = "closed" \/ recvExit \in {"closed", "marker_closed"})
        => shutdown_event

\* C4 as claimed, in full: once a loop has ended on an error whose message
\* contains "1008" or "ConnectionClosed", the shutdown event becomes set and
\* both loops end.  Stated for a client that stays connected, so that the
\* session is not ended from the client's side: if the client leaves instead,
\* nothing is required.
C4_ClosedLeadsToShutdown ==
    (sendExit = "closed" \/ recvExit \in {"closed", "marker_closed"})
        ~> (\/ shutdown_event /\ TaskFinished(pcSend) /\ TaskFinished(pcRecv)
            \/ ~clientUp)

\* C4, what the code keeps: a loop that ended on an error whose message contains "1008"
\* or "ConnectionClosed" and, for the receive loop, not "cancelled", has set
\* the shutdown event, and afterwards both loops end.
C4_ClosedStopsBoth ==
    /\ [](sendExit = "closed" => shutdown_event /\ TaskFinished(pcSend))
    /\ [](recvExit = "closed" => shutdown_event /\ TaskFinished(pcRecv))
    /\ (sendExit = "closed" \/ recvExit = "closed")
          ~> (TaskFinished(pcSend) /\ TaskFinished(pcRecv))

\* the receive loop ended on a connection-closed error and the send loop was
\* stopped by the teardown that followed
C4_Witness ==
    /\ recvExit = "closed"
    /\ sendExit = "cancelled"
    /\ AllFinished
    /\ pcMain = "receive"

\* ---------------------------------------------------------------- C5
ErrorCount == Cardinality({i \in DOMAIN sink : sink[i].type = "error"})

\* C5 as claimed: when run_gemini_session has returned after the send loop
\* ended on a connection-closed error, with the client still connected, the
\* client has received exactly one event of type error, the shutdown event is
\* set, both loops have ended and the remote connection is closed.
C5_ClosedErrorEvent ==
    (TaskFinished(pcGem) /\ sendExit = "closed" /\ is_connected /\ clientUp)
        => /\ ErrorCount = 1
           /\ shutdown_event
           /\ TaskFinished(pcSend) /\ TaskFinished(pcRecv)
           /\ session = "closed"

\* the session has ended that way and the client has no error event
C5_Witness ==
    /\ TaskFinished(pcGem) /\ sendExit = "closed" /\ is_connected /\ clientUp
    /\ ErrorCount = 0
    /\ shutdown_event
    /\ session = "closed"

\* ---------------------------------------------------------------- C6
RelayTypes == {"audio", "transcript", "assistant_silent", "interrupted", "error"}

\* C6: the client receives at most one error event in a session, and no
\* relay event (audio, transcript, assistant_silent, interrupted, error)
\* after it.
C6_ErrorIsLast ==
    /\ ErrorCount <= 1
    /\ \A i \in DOMAIN sink :
          sink[i].type = "error" =>
              \A j \in DOMAIN sink : j > i => sink[j].type \notin RelayTypes

C6_Witness ==
    /\ GEMINI_API_KEY
    /\ ErrorCount = 1
    /\ pcGem = "done"
    /\ pcMain = "done"

\* ---------------------------------------------------------------- C7
\* C7: with an empty GEMINI_API_KEY no session task, no loop task and no
\* remote connection ever exists, and when the handler has returned the client
\* has received exactly the one error event and its connection is closed.
C7_NoKeyNoSession ==
    ~GEMINI_API_KEY =>
        /\ pcGem = "none" /\ pcSend = "none" /\ pcRecv = "none"
        /\ session = "none"
        /\ ErrorCount <= 1
        /\ pcMain = "done" =>
              /\ sink = <<ErrorMsg("GEMINI_API_KEY not configured on server")>>
              /\ websocket = "closed"

C7_Witness ==
    ~GEMINI_API_KEY /\ pcMain = "done" /\ websocket = "closed" /\ ErrorCount = 1

\* ---------------------------------------------------------------- relay logs
\* the relay events the client received, in order (server_log and
\* session_started messages left out)
IsRelay(m) == m.type \in RelayTypes
RelaySink == SelectSeq(sink, IsRelay)

\* the audio bytes carried by the audio events of a sequence of messages
RECURSIVE Payloads(_)
Payloads(ms) ==
    IF ms = << >> THEN << >>
    ELSE (IF Head(ms).type = "audio" THEN Head(ms).data.data ELSE << >>)
         \o Payloads(Tail(ms))

\* the inline audio parts of the remote's responses lo..hi that the receive
\* loop hands to the callback (an interrupted response's parts are skipped)
RECURSIVE Parts(_, _)
Parts(lo, hi) ==
    IF lo > hi THEN << >>
    ELSE (IF ~remote[lo].interrupted /\ remote[lo].data # 0
          THEN << <<lo, remote[lo].data>> >> ELSE << >>)
         \o Parts(lo + 1, hi)

IsFrom(m, lo, hi) == m.type \in RelayTypes \ {"error"} /\ m.of \in lo..hi
IsFlushOf(m, n) == m.type = "audio" /\ m.of = n

\* the audio events among the first k relay events that are not the flush of
\* the turn-complete response n
BeforeFlush(k, n) ==
    SelectSeq(SubSeq(RelaySink, 1, k), LAMBDA m : ~IsFlushOf(m, n))

\* ---------------------------------------------------------------- C8
\* C8: while the client is connected the buffer holds 48,000 bytes or more
\* only while the audio event that empties it is being sent, so a turn that accumulates that much has an audio
\* event before its turn-complete notification; at every assistant_silent
\* event the audio events before it carry exactly the parts received so far;
\* when parts were still unflushed at turn-complete the event just before the
\* notification is one audio event carrying exactly those, otherwise no flush
\* is sent; and the buffer is empty while the notification is sent.
C8_FlushBeforeTurnComplete ==
    /\ (/\ is_connected
        /\ pcRecv \in {"cb_text", "cb_flush", "cb_silent", "cb_interrupted", "receive"})
          => BytesLen(audio_buffer) < BUFFER_TARGET_SIZE
    /\ pcRecv = "cb_silent" => audio_buffer = << >>
    /\ \A k \in DOMAIN RelaySink :
          RelaySink[k].type = "assistant_silent" =>
              LET n == RelaySink[k].of
                  earlier == Payloads(BeforeFlush(k - 1, n))
              IN  /\ Payloads(SubSeq(RelaySink, 1, k - 1)) = Parts(1, n)
                  /\ earlier # Parts(1, n) =>
                        /\ IsFlushOf(RelaySink[k - 1], n)
                        /\ earlier \o RelaySink[k - 1].data.data = Parts(1, n)
                  /\ earlier = Parts(1, n) =>
                        (k = 1 \/ ~IsFlushOf(RelaySink[k - 1], n))

\* a turn of 72,000 bytes: one audio event at the threshold, the remainder
\* flushed at turn-complete
C8_Witness ==
    \E k \in DOMAIN RelaySink :
        /\ k >= 3
        /\ RelaySink[k].type = "assistant_silent"
        /\ IsFlushOf(RelaySink[k - 1], RelaySink[k].of)
        /\ BytesLen(RelaySink[k - 1].data.data) = 24000
        /\ RelaySink[k - 2].type = "audio"
        /\ BytesLen(RelaySink[k - 2].data.data) >= BUFFER_TARGET_SIZE

\* ---------------------------------------------------------------- C9
\* the number of the last response before n that carried the turn-complete
\* flag (0 when there is none): the turn of response n starts after it
RECURSIVE TurnStart(_)
TurnStart(n) ==
    IF n <= 1 THEN 0
    ELSE IF remote[n - 1].turn_complete THEN n - 1
    ELSE TurnStart(n - 1)

Uninterrupted(lo, hi) == \A m \in lo..hi : ~remote[m].interrupted

\* the relay events sent for the responses lo..hi
EventsOf(lo, hi) == SelectSeq(RelaySink, LAMBDA m : IsFrom(m, lo, hi))

\* C9 as claimed: at the turn-complete notification of an uninterrupted turn
\* the audio events emitted for the turn carry exactly the audio parts the
\* remote produced in that turn, in order.
C9_TurnAudioExact ==
    \A k \in DOMAIN RelaySink :
        (/\ RelaySink[k].type = "assistant_silent"
         /\ Uninterrupted(TurnStart(RelaySink[k].of) + 1, RelaySink[k].of))
        => LET n == RelaySink[k].of
           IN  Payloads(EventsOf(TurnStart(n) + 1, n)) = Parts(TurnStart(n) + 1, n)

\* what holds: the same, as long as the remote has reported no interruption
C9_ExactWithoutInterruption ==
    \A k \in DOMAIN RelaySink :
        (/\ RelaySink[k].type = "assistant_silent"
         /\ Uninterrupted(1, RelaySink[k].of))
        => LET n == RelaySink[k].of
           IN  Payloads(EventsOf(TurnStart(n) + 1, n)) = Parts(TurnStart(n) + 1, n)

\* an uninterrupted turn without audio whose notification follows an audio
\* event carrying a part of an earlier, interrupted turn
C9_Witness ==
    \E k \in DOMAIN RelaySink :
        /\ k >= 2
        /\ RelaySink[k].type = "assistant_silent"
        /\ Uninterrupted(TurnStart(RelaySink[k].of) + 1, RelaySink[k].of)
        /\ Parts(TurnStart(RelaySink[k].of) + 1, RelaySink[k].of) = << >>
        /\ IsFlushOf(RelaySink[k - 1], RelaySink[k].of)

\* ---------------------------------------------------------------- C10
\* C10 as claimed: an audio event emitted after an interrupted notification
\* carries no part that was received before the interrupted response.
C10_DiscardedOnInterrupt ==
    \A i, j \in DOMAIN RelaySink :
        (i < j /\ RelaySink[i].type = "interrupted" /\ RelaySink[j].type = "audio")
        => \A b \in DOMAIN RelaySink[j].data.data :
              RelaySink[j].data.data[b][1] > RelaySink[i].of

\* the interrupted notification is emitted, and a later audio event carries
\* the bytes buffered before it
C10_Witness ==
    \E i, j \in DOMAIN RelaySink :
        /\ i < j
        /\ RelaySink[i].type = "interrupted"
        /\ RelaySink[j].type = "audio"
        /\ RelaySink[j].data.data = << <<1, 24000>> >>
        /\ RelaySink[i].of = 2

\* ---------------------------------------------------------------- C11
\* the numbers of the responses whose content a relay event carries: for an
\* audio event the responses of its parts, else the response that caused it
Carries(m) ==
    IF m.type = "audio"
    THEN {m.data.data[b][1] : b \in DOMAIN m.data.data}
    ELSE IF m.type = "error" THEN {} ELSE {m.of}

\* C11 as claimed: an event is never emitted after an event that carries
\* content the remote produced later (audio parts may share one event).
C11_ProducedOrder ==
    \A i, j \in DOMAIN RelaySink :
        i < j => \A a \in Carries(RelaySink[i]), b \in Carries(RelaySink[j]) : a <= b

\* C11, what the code keeps: the audio parts among themselves and the other
\* events among themselves are in the order the remote produced them.
C11_OrderWithinKinds ==
    \A i, j \in DOMAIN RelaySink :
        (i < j /\ (RelaySink[i].type = "audio") = (RelaySink[j].type = "audio"))
        => \A a \in Carries(RelaySink[i]), b \in Carries(RelaySink[j]) : a <= b

\* a transcript is delivered before the audio part produced before it
C11_Witness ==
    \E i, j \in DOMAIN RelaySink :
        /\ i < j
        /\ RelaySink[i].type = "transcript"
        /\ RelaySink[j].type = "audio"
        /\ \E a \in Carries(RelaySink[j]) : a < RelaySink[i].of
        /\ \A n \in DOMAIN remote : ~remote[n].interrupted

\* ---------------------------------------------------------------- C12
\* C12: once shutdown_event is set no step clears it, whoever sets it again
\* (the client handler's finally block, the coordinator's finally block, a
\* loop on a connection-closed error).
C12_ShutdownMonotone ==
    [][shutdown_event => shutdown_event']_vars

\* the event was set by a loop on a connection-closed error, again by the
\* coordinator's finally block and again by the client handler's
C12_Witness ==
    /\ shutdown_event
    /\ sendExit = "closed"
    /\ teardown = 1
    /\ pcMain = "done"

\* ---------------------------------------------------------------- C13
\* C13: for a PCM input of N bytes and a sample rate, pcm_to_wav returns
\* 44 + N bytes: 44 bytes of header with file size 36 + N, data size N,
\* 1 channel, 16 bits per sample, byte rate = rate * 1 * 2 and block align
\* 1 * 2, then the input unchanged; what it returns is determined by its
\* arguments.
C13_WavLayout ==
    wav.result.raised # "not called" =>
        LET N == BytesLen(wav.pcm_data)
            r == wav.result
        IN  /\ r.raised = "none"
            /\ r.len = 44 + N
            /\ SizeOf(r.wav.header) = 44
            /\ r.wav.header[2] = [fmt |-> "I", value |-> 36 + N, size |-> 4]
            /\ r.wav.header[7] = [fmt |-> "H", value |-> 1, size |-> 2]
            /\ r.wav.header[8] = [fmt |-> "I", value |-> wav.sample_rate, size |-> 4]
            /\ r.wav.header[9] = [fmt |-> "I", value |-> wav.sample_rate * 1 * 2, size |-> 4]
            /\ r.wav.header[10] = [fmt |-> "H", value |-> 1 * 2, size |-> 2]
            /\ r.wav.header[11] = [fmt |-> "H", value |-> 16, size |-> 2]
            /\ r.wav.header[13] = [fmt |-> "I", value |-> N, size |-> 4]
            /\ r.wav.data = wav.pcm_data
            /\ r = getvalue(pcm_to_wav(wav.pcm_data, wav.sample_rate))

\* the call with an empty input has returned 44 bytes
C13_Witness ==
    /\ wav.pcm_data = << >>
    /\ wav.result.raised = "none"
    /\ wav.result.len = 44
    /\ wav.result.wav.data_size = 0

\* ---------------------------------------------------------------- C14
\* C14 as claimed: when one of the two loop tasks has finished and the
\* coordinator is in asyncio.wait, its wake-up leaves the supervision loop
\* and runs the finally block, whether or not the other task is pending and
\* the event is set.
C14_LeavesOnFirstDone ==
    (/\ pcGem = "wait"
     /\ ~gemCancel
     /\ TaskFinished(pcSend) \/ TaskFinished(pcRecv))
    => ENABLED <<GemWait>>_vars

\* the receive task has returned, the send loop polls its queue, the event is
\* not set and the coordinator stays in its supervision loop
C14_Witness ==
    /\ pcGem = "wait"
    /\ ~gemCancel
    /\ TaskFinished(pcRecv)
    /\ pcSend = "get"
    /\ ~shutdown_event
    /\ teardown = 0
    /\ ~ENABLED <<GemWait>>_vars

\* ---------------------------------------------------------------- C16
\* the exception raised last
LastRaised(log) == log[Len(log)]

\* a step in which session.send raises an error without the connection-closed
\* signature
TransientSendError ==
    /\ raised' # raised
    /\ LastRaised(raised').by = "send"
    /\ ~LastRaised(raised').error.closed

\* C16: when session.send raises an error without the connection-closed
\* signature the event is left as it is, nothing is sent to the client but,
\* afterwards, a server_log message, the chunk is not put back, and the loop
\* goes on (or ends because the event is set); no chunk is passed to
\* session.send twice, the chunks passed are still the enqueued ones in
\* order, and the client gets no error event.
C16_TransientAbsorbed ==
    /\ [][TransientSendError =>
            /\ shutdown_event' = shutdown_event
            /\ sink' = sink
            /\ sent' = sent
            /\ audio_queue' = audio_queue
            /\ \/ pcSend' \in {"log_error", "get"} /\ sendExit' = sendExit
               \/ pcSend' = "done" /\ sendExit' = "shutdown" /\ shutdown_event]_vars
    /\ [][(pcSend = "log_error" /\ pcSend' # "log_error") =>
            /\ shutdown_event' = shutdown_event
            /\ ErrorCount' = ErrorCount
            /\ sent' = sent]_vars
    /\ [](\A i, j \in DOMAIN sent : i # j => sent[i] # sent[j])
    /\ [](sent \o ChunksOf(audio_queue) = Enqueued)
    /\ [](LoopsSpawned => ErrorCount = 0)

\* the send of chunk 1 failed with a transient error, chunk 2 was passed to
\* session.send after it, the event is not set and the send loop runs
C16_Witness ==
    /\ Len(raised) = 1
    /\ raised[1].by = "send" /\ ~raised[1].error.closed /\ raised[1].chunk = 1
    /\ sent = <<1, 2>>
    /\ ~shutdown_event
    /\ pcSend = "get"

\* ---------------------------------------------------------------- C17
\* C17: when the remote event sequence ends by itself, the receive loop
\* returns if the event is set and else sleeps 0.1 s; that step sets no
\* event, sends nothing to the client, leaves the buffer, the connection and
\* the coordinator as they are; after the sleep the loop enters the sequence
\* again if the event is still unset and returns if it is set, with the
\* buffer as it was (unless the task is cancelled meanwhile).
C17_IteratorEndReenters ==
    /\ [][(pcRecv = "receive" /\ pcRecv' = "sleep_0_1") =>
            /\ ~shutdown_event'
            /\ UNCHANGED <<shutdown_event, sink, audio_buffer, session, teardown,
                           pcGem, pcSend, is_connected, recvExit>>]_vars
    /\ [][(pcRecv = "receive" /\ pcRecv' = "done" /\ UNCHANGED <<remote, raised>>
           /\ recvExit' = "shutdown") =>
            /\ shutdown_event
            /\ UNCHANGED <<shutdown_event, sink, audio_buffer, session, teardown>>]_vars
    /\ [][(pcRecv = "sleep_0_1" /\ pcRecv' # "sleep_0_1") =>
            /\ \/ recvExit' = "cancelled"
               \/ ~shutdown_event /\ pcRecv' = "receive" /\ recvExit' = recvExit
               \/ shutdown_event /\ pcRecv' = "done" /\ recvExit' = "shutdown"
            /\ UNCHANGED <<shutdown_event, sink, audio_buffer, session>>]_vars

\* the sequence ended while a part was buffered, and the loop sleeps before
\* it enters the sequence again
C17_Witness ==
    /\ pcRecv = "sleep_0_1"
    /\ audio_buffer = << <<1, 24000>> >>
    /\ ~shutdown_event
    /\ session = "open"
    /\ ErrorCount = 0

\* ---------------------------------------------------------------- C18
\* C18 as claimed: with the event set, a loop that is waiting (for the queue,
\* for the remote, in a sleep) and has no cancellation pending can take its
\* next step by itself, without an event from the remote and without being
\* cancelled.
C18_NoUnboundedWait ==
    /\ (shutdown_event /\ pcSend = "get" /\ ~sendCancel)
          => ENABLED <<SendGet>>_vars
    /\ (shutdown_event /\ pcRecv \in {"receive", "sleep_0_1", "sleep_0_5"} /\ ~recvCancel)
          => ENABLED <<RecvFair>>_vars

\* C18, what the code keeps: the same for the send loop waiting for the queue
\* and for the receive loop in its sleeps.
C18_PolledWaits ==
    /\ (shutdown_event /\ pcSend = "get" /\ ~sendCancel)
          => ENABLED <<SendGet>>_vars
    /\ (shutdown_event /\ pcRecv \in {"sleep_0_1", "sleep_0_5"} /\ ~recvCancel)
          => ENABLED <<RecvFair>>_vars

\* the event is set (by the send loop, on a closed connection), the receive
\* loop waits for the next remote event, and no step of its own is possible
C18_Witness ==
    /\ shutdown_event
    /\ sendExit = "closed"
    /\ pcRecv = "receive"
    /\ ~recvCancel
    /\ ~ENABLED <<RecvFair>>_vars

\* ---------------------------------------------------------------- C19
\* the raw text of an error raised by session.receive() contains the
\* cancellation marker
MarkedReceiveError(e) == e.by = "receive" /\ e.error.cancelled

\* C19: when session.receive() raises an error whose message contains the
\* cancellation marker, with or without the closed-connection signature, the
\* receive loop ends in that very step: it does not go on to a log, a sleep
\* or another receive, it leaves the shutdown signal as it was and sends
\* nothing to the client; a loop that ended this way stays ended, and no
\* event of type error reaches the client after it.
C19_MarkerEndsSilently ==
    [][/\ (raised' # raised /\ MarkedReceiveError(LastRaised(raised')))
            => (/\ pcRecv' = "done"
                /\ recvExit' = MarkerExit(LastRaised(raised').error)
                /\ shutdown_event' = shutdown_event
                /\ sink' = sink
                /\ todo' = << >>)
       /\ recvExit \in {"marker", "marker_closed"}
            => (/\ pcRecv' = "done"
                /\ recvExit' = recvExit
                /\ ErrorCount' = ErrorCount)]_vars

\* the marker came together with the closed-connection signature: the loop
\* is over, the signal is not set and no error event was produced
C19_Witness ==
    /\ recvExit = "marker_closed"
    /\ pcRecv = "done"
    /\ raised # << >>
    /\ MarkedReceiveError(LastRaised(raised))
    /\ LastRaised(raised).error.closed
    /\ ~shutdown_event
    /\ ErrorCount = 0

\* ---------------------------------------------------------------- C20
\* the remote's response n carried the interrupted flag together with an
\* audio part, a text part and the turn-complete flag
FullInterrupted(n) ==
    /\ remote[n].interrupted
    /\ remote[n].data # 0
    /\ remote[n].text
    /\ remote[n].turn_complete

\* C20: for every response of the remote whose interrupted flag is set, the
\* only callback made for it is the interrupted one, the only event the
\* client receives on its account is the interrupted notification (no
\* transcript, no flush of the buffer, no turn-complete notification), and
\* its audio part is neither in the buffer nor in any audio event.
C20_InterruptedOnly ==
    \A n \in DOMAIN remote :
        remote[n].interrupted =>
            /\ \A c \in DOMAIN todo :
                  todo[c].arg[1] = n => todo[c].cb = "interrupted"
            /\ \A i \in DOMAIN RelaySink :
                  (RelaySink[i].type # "error" /\ RelaySink[i].of = n)
                  => RelaySink[i].type = "interrupted"
            /\ \A i \in DOMAIN RelaySink :
                  RelaySink[i].type = "audio"
                  => \A b \in DOMAIN RelaySink[i].data.data :
                        RelaySink[i].data.data[b][1] # n
            /\ \A b \in DOMAIN audio_buffer : audio_buffer[b][1] # n

\* an interrupted response that also carried audio, text and turn-complete
\* was handled while audio was buffered: its notification reached the
\* client, the handler returned and the buffer still holds the earlier audio
C20_Witness ==
    \E n \in DOMAIN remote :
        /\ FullInterrupted(n)
        /\ \E i \in DOMAIN sink : sink[i] = InterruptedMsg(n)
        /\ pcRecv = "receive"
        /\ audio_buffer # << >>
        /\ is_connected

====
